---------------------------- MODULE Spec2Model ----------------------------
(***************************************************************************)
(* Model of server.py, the Selenium MCP server.                            *)
(*                                                                         *)
(* Two parts of the program are modelled:                                  *)
(*   - the module-level start-up code that resolves CHROME_BINARY and      *)
(*     CHROMEDRIVER_PATH from the environment and the filesystem, and the  *)
(*     /health handler that reads the result (SpecStartup);                *)
(*   - the /mcp/invoke handler invoke_tool, which FastAPI runs on a thread *)
(*     pool (it is a plain def), so several invocations interleave at the  *)
(*     blocking calls into the browser driver (Spec).                      *)
(***************************************************************************)
EXTENDS Integers, Sequences, FiniteSets, TLC

\* ------------------------------------------------------------------------
\* Bounds of the model
\* ------------------------------------------------------------------------

\* Threads of the server's thread pool that serve /mcp/invoke.
NumWorkers == 2

\* Invocations of /mcp/invoke received in one run.
MaxInvocations == 2

Workers == 1..NumWorkers
InvIds == 1..MaxInvocations

\* ------------------------------------------------------------------------
\* The environment: os.environ, the filesystem, the installed versions
\* ------------------------------------------------------------------------

Unset == "<unset>"

DefaultLocalChrome == "/Applications/Google Chrome.app/Contents/MacOS/Google Chrome"
DefaultLocalDriver == "/usr/local/bin/chromedriver"
DefaultChrome == "/opt/render/project/src/.local/chrome/chrome-linux/chrome"
DefaultDriver == "./chromedriver/chromedriver"
fallback_path == "/usr/bin/google-chrome"

\* A path an operator may put in CHROME_BINARY / LOCAL_CHROME_BINARY.
CustomChrome == "/custom/chrome"

ChromePaths == {DefaultLocalChrome, DefaultChrome, CustomChrome, fallback_path}

EnvNames == {"LOCAL_MODE", "CHROME_BINARY", "LOCAL_CHROME_BINARY",
             "CHROMEDRIVER_PATH", "LOCAL_CHROMEDRIVER_PATH"}

\* Major versions a browser or a driver installed on the host may have.
Majors == {119, 120}

VARIABLES
    environ,            \* os.environ after load_dotenv(): name -> value or Unset
    fs,                 \* the paths for which os.path.exists is true
    browserMajor,       \* major version of the installed browser
    driverMajor,        \* major version of the installed driver
    loaded,             \* the module-level code of server.py has run
    LOCAL_MODE,         \* module global
    CHROME_BINARY,      \* module global
    CHROMEDRIVER_PATH,  \* module global
    bootLog,            \* the line the binary validation printed last
    health,             \* the last /health response, or "none"
    pc,                 \* worker -> place of its invocation in invoke_tool
    inv,                \* worker -> id of the invocation it serves (0: none)
    driver,             \* worker -> the local variable driver (0: unbound)
    nInv,               \* invocations received so far
    reqOf,              \* invocation -> the InvokeRequest
    respOf,             \* invocation -> the HTTP response, once produced
    sessionOf,          \* invocation -> session its webdriver.Chrome returned
    workerOf,           \* invocation -> worker that serves it
    alive,              \* sessions whose browser process is running
    created,            \* number of sessions webdriver.Chrome has returned
    navigations         \* number of driver.get calls that completed

envVars == <<environ, fs, browserMajor, driverMajor>>
globalVars == <<loaded, LOCAL_MODE, CHROME_BINARY, CHROMEDRIVER_PATH, bootLog>>
serveVars == <<pc, inv, driver, nInv, reqOf, respOf, sessionOf, workerOf,
               alive, created, navigations>>
vars == <<envVars, globalVars, health, serveVars>>

\* os.getenv(name, default)
Getenv(env, name, default) ==
    IF env[name] = Unset THEN default ELSE env[name]

\* str.lower() on the values LOCAL_MODE is given in the model
Lower(s) ==
    CASE s = "True" -> "true"
      [] s = "TRUE" -> "true"
      [] OTHER -> s

\* LOCAL_MODE = os.getenv("LOCAL_MODE", "false").lower() == "true"
LocalModeOf(env) == Lower(Getenv(env, "LOCAL_MODE", "false")) = "true"

\* The path CHROME_BINARY is first bound to (lines 44-57).
ConfiguredChrome(env) ==
    IF LocalModeOf(env)
    THEN Getenv(env, "LOCAL_CHROME_BINARY", DefaultLocalChrome)
    ELSE Getenv(env, "CHROME_BINARY", DefaultChrome)

\* The path CHROMEDRIVER_PATH is bound to (lines 49-51, 57).
ConfiguredDriver(env) ==
    IF LocalModeOf(env)
    THEN Getenv(env, "LOCAL_CHROMEDRIVER_PATH", DefaultLocalDriver)
    ELSE Getenv(env, "CHROMEDRIVER_PATH", DefaultDriver)

\* The binary validation (lines 60-69): the value of CHROME_BINARY after it.
ResolveChromeBinary(configured, exists) ==
    IF configured \notin exists
    THEN IF fallback_path \in exists THEN fallback_path ELSE configured
    ELSE configured

\* The line the binary validation prints last (lines 61-69).
ResolveLog(configured, exists) ==
    IF configured \notin exists
    THEN IF fallback_path \in exists THEN "INFO using fallback"
                                     ELSE "ERROR no valid chrome binary found"
    ELSE "INFO chrome binary confirmed"


\* ------------------------------------------------------------------------
\* Start-up: the module-level code, and /health
\* ------------------------------------------------------------------------

NoPath == "<unbound>"

\* The serving state of a process that has received nothing yet.
ServeIdle ==
    /\ pc = [w \in Workers |-> "idle"]
    /\ inv = [w \in Workers |-> 0]
    /\ driver = [w \in Workers |-> 0]
    /\ nInv = 0
    /\ reqOf = [k \in InvIds |-> [tool |-> "", url |-> ""]]
    /\ respOf = [k \in InvIds |-> [status |-> 0, detail |-> "", arg |-> "", title |-> ""]]
    /\ sessionOf = [k \in InvIds |-> 0]
    /\ workerOf = [k \in InvIds |-> 0]
    /\ alive = {}
    /\ created = 0
    /\ navigations = 0

\* The environments a process may be started in.
StartupEnvirons ==
    { [n \in EnvNames |->
          CASE n = "LOCAL_MODE" -> lm
            [] n = "CHROME_BINARY" -> cb
            [] n = "LOCAL_CHROME_BINARY" -> lcb
            [] OTHER -> Unset] :
      lm \in {Unset, "True", "false"},
      cb \in {Unset, CustomChrome},
      lcb \in {Unset, CustomChrome} }

\* The process before server.py is imported.
InitStartup ==
    /\ environ \in StartupEnvirons
    /\ fs \in SUBSET ChromePaths
    /\ browserMajor \in Majors
    /\ driverMajor \in Majors
    /\ loaded = FALSE
    /\ LOCAL_MODE = FALSE
    /\ CHROME_BINARY = NoPath
    /\ CHROMEDRIVER_PATH = NoPath
    /\ bootLog = ""
    /\ health = "none"
    /\ ServeIdle

\* Lines 35-69: the import of server.py.
LoadModule ==
    /\ ~loaded
    /\ loaded' = TRUE
    /\ LOCAL_MODE' = LocalModeOf(environ)
    /\ CHROME_BINARY' = ResolveChromeBinary(ConfiguredChrome(environ), fs)
    /\ CHROMEDRIVER_PATH' = ConfiguredDriver(environ)
    /\ bootLog' = ResolveLog(ConfiguredChrome(environ), fs)
    /\ UNCHANGED <<envVars, health, serveVars>>

\* GET /health (lines 74-84): the status field of the response.
health_check ==
    /\ loaded
    /\ health' = IF CHROME_BINARY \in fs THEN "healthy" ELSE "unhealthy"
    /\ UNCHANGED <<envVars, globalVars, serveVars>>

NextStartup == LoadModule \/ health_check

SpecStartup == InitStartup /\ [][NextStartup]_vars


\* ------------------------------------------------------------------------
\* POST /mcp/invoke: invoke_tool
\* ------------------------------------------------------------------------

\* request.arguments.get("url") of a request whose arguments hold no "url".
None == "<None>"

ToolName == "selenium_open_page"

\* The requests clients send: the advertised tool with the url absent, empty
\* or given, and a tool the schema does not advertise.
Urls == {None, "", "https://a.example"}
Requests ==
    {[tool |-> ToolName, url |-> u] : u \in Urls}
        \cup {[tool |-> "selenium_click", url |-> "https://a.example"]}

\* The text of the exception a call into the browser driver raises.
ExcText(site) ==
    CASE site = "launch" -> "session not created"
      [] site = "get" -> "navigation failed"
      [] site = "title" -> "no such window"
      [] site = "quit" -> "connection refused"

\* Python's truth value of the url argument: None and "" are false.
Falsy(url) == url = None \/ url = ""

\* A check that rejects only an absent url (`if url is None`).
ValidateNoneOnly(tool, url) ==
    IF tool = ToolName
    THEN IF url = None THEN "missing_url" ELSE "ok"
    ELSE "unknown_tool"

\* Lines 283-286 and 304: what the checks before the try block decide.
Validate(tool, url) ==
    IF tool = ToolName
    THEN IF Falsy(url) THEN "missing_url" ELSE "ok"
    ELSE "unknown_tool"

\* HTTPException(status_code=400, ...) (line 286)
MissingUrlResponse ==
    [status |-> 400, detail |-> "Missing URL argument.", arg |-> "", title |-> ""]

\* HTTPException(status_code=404, ...) (line 304)
UnknownToolResponse(tool) ==
    [status |-> 404, detail |-> "Unknown tool: ", arg |-> tool, title |-> ""]

\* HTTPException(status_code=500, detail=f"Chrome could not start: {e}") (line 302)
ErrorResponse(e) ==
    [status |-> 500, detail |-> "Chrome could not start: ", arg |-> e, title |-> ""]

\* {"result": f"Opened {url}", "title": title} (line 300)
SuccessResponse(url, title) ==
    [status |-> 200, detail |-> "Opened ", arg |-> url, title |-> title]

\* The title of the page a url leads to.
TitleOf(url) == <<"title of", url>>

\* A handler that keeps one module-level driver and hands it out again.
CachedSession(n) == IF n = 0 THEN 1 ELSE n

\* The session a call of webdriver.Chrome(...) returns: a new object, and a new
\* browser process, on every call (line 296).
NewSession(n) == n + 1

\* A quit that leaves the browser process running.
QuitLeavesProcess(running, s) == running

\* The running browser processes after driver.quit() on session s (line 299).
QuitEffect(running, s) == running \ {s}

\* Lines 283-292, 304: the request is received by a free worker and checked.
invoke_tool(w, tool, url) ==
    /\ loaded
    /\ pc[w] = "idle"
    /\ nInv < MaxInvocations
    /\ LET k == nInv + 1
           v == Validate(tool, url)
       IN /\ nInv' = k
          /\ reqOf' = [reqOf EXCEPT ![k] = [tool |-> tool, url |-> url]]
          /\ workerOf' = [workerOf EXCEPT ![k] = w]
          /\ IF v = "ok"
             THEN /\ pc' = [pc EXCEPT ![w] = "launch"]
                  /\ inv' = [inv EXCEPT ![w] = k]
                  /\ respOf' = respOf
             ELSE /\ pc' = pc
                  /\ inv' = inv
                  /\ respOf' = [respOf EXCEPT ![k] =
                        IF v = "missing_url" THEN MissingUrlResponse
                                             ELSE UnknownToolResponse(tool)]
    /\ UNCHANGED <<envVars, globalVars, health, driver, sessionOf, alive,
                   created, navigations>>

\* Lines 301-302: the except clause turns the exception raised at `site` into
\* the 500 response; the handler ends without touching the driver, so a
\* browser process that was running keeps running.
Raise(w, site) ==
    /\ respOf' = [respOf EXCEPT ![inv[w]] = ErrorResponse(ExcText(site))]
    /\ pc' = [pc EXCEPT ![w] = "idle"]
    /\ inv' = [inv EXCEPT ![w] = 0]
    /\ driver' = [driver EXCEPT ![w] = 0]

\* Lines 295-296: Service(CHROMEDRIVER_PATH) and webdriver.Chrome(...). The
\* browser starts only from a binary that exists; whether it then starts is
\* the host's answer. The code reads neither browserMajor nor driverMajor.
\* A constructor that raises returns no handle and leaves no process behind.
Launch(w, ok) ==
    /\ pc[w] = "launch"
    /\ IF ok
       THEN /\ CHROME_BINARY \in fs
            /\ LET s == NewSession(created)
               IN /\ driver' = [driver EXCEPT ![w] = s]
                  /\ sessionOf' = [sessionOf EXCEPT ![inv[w]] = s]
                  /\ alive' = alive \cup {s}
            /\ created' = created + 1
            /\ pc' = [pc EXCEPT ![w] = "get"]
            /\ UNCHANGED <<inv, respOf>>
       ELSE /\ Raise(w, "launch")
            /\ UNCHANGED <<sessionOf, alive, created>>
    /\ UNCHANGED <<envVars, globalVars, health, nInv, reqOf, workerOf, navigations>>

\* Line 297: driver.get(url)
Get(w, ok) ==
    /\ pc[w] = "get"
    /\ IF ok
       THEN /\ navigations' = navigations + 1
            /\ pc' = [pc EXCEPT ![w] = "title"]
            /\ UNCHANGED <<inv, respOf, driver>>
       ELSE /\ Raise(w, "get")
            /\ UNCHANGED navigations
    /\ UNCHANGED <<envVars, globalVars, health, nInv, reqOf, workerOf, sessionOf,
                   alive, created>>

\* Line 298: title = driver.title
Title(w, ok) ==
    /\ pc[w] = "title"
    /\ IF ok
       THEN /\ pc' = [pc EXCEPT ![w] = "quit"]
            /\ UNCHANGED <<inv, respOf, driver>>
       ELSE Raise(w, "title")
    /\ UNCHANGED <<envVars, globalVars, health, nInv, reqOf, workerOf, sessionOf,
                   alive, created, navigations>>

\* Lines 299-300: driver.quit() and the return of the result. A quit that
\* raises may or may not have ended the browser process.
Quit(w, ok, ended) ==
    /\ pc[w] = "quit"
    /\ IF ok
       THEN /\ ended
            /\ alive' = QuitEffect(alive, driver[w])
            /\ respOf' = [respOf EXCEPT ![inv[w]] =
                  SuccessResponse(reqOf[inv[w]].url, TitleOf(reqOf[inv[w]].url))]
            /\ pc' = [pc EXCEPT ![w] = "idle"]
            /\ inv' = [inv EXCEPT ![w] = 0]
            /\ driver' = [driver EXCEPT ![w] = 0]
       ELSE /\ Raise(w, "quit")
            /\ alive' = IF ended THEN alive \ {driver[w]} ELSE alive
    /\ UNCHANGED <<envVars, globalVars, health, nInv, reqOf, workerOf, sessionOf,
                   created, navigations>>

\* The environments the serving process is checked in: the deployment's
\* defaults (no variable set), with every combination of the staged browser
\* and the system browser present or absent.
ServeEnviron == [n \in EnvNames |-> Unset]
ServeFiles == SUBSET {DefaultChrome, fallback_path}

\* The process once server.py is imported and the server accepts requests.
Init ==
    /\ environ = ServeEnviron
    /\ fs \in ServeFiles
    /\ browserMajor \in Majors
    /\ driverMajor \in Majors
    /\ loaded = TRUE
    /\ LOCAL_MODE = LocalModeOf(environ)
    /\ CHROME_BINARY = ResolveChromeBinary(ConfiguredChrome(environ), fs)
    /\ CHROMEDRIVER_PATH = ConfiguredDriver(environ)
    /\ bootLog = ResolveLog(ConfiguredChrome(environ), fs)
    /\ health = "none"
    /\ ServeIdle

Next ==
    \E w \in Workers :
        \/ \E request \in Requests : invoke_tool(w, request.tool, request.url)
        \/ \E ok \in BOOLEAN : Launch(w, ok)
        \/ \E ok \in BOOLEAN : Get(w, ok)
        \/ \E ok \in BOOLEAN : Title(w, ok)
        \/ \E ok \in BOOLEAN, ended \in BOOLEAN : Quit(w, ok, ended)

Spec == Init /\ [][Next]_vars


\* ------------------------------------------------------------------------
\* Properties
\* ------------------------------------------------------------------------

Received == 1..nInv

\* What a caller can branch on in an error response: the status code and the
\* fixed part of the detail (line 302); the rest is the exception's free text.
ErrorKind(r) == <<r.status, r.detail>>

\* The invocation got a session and a later call on it raised.
ActionFailed(k) == respOf[k].status = 500 /\ sessionOf[k] # 0

\* The invocation's navigation or title read raised.
NavigationOrTitleFailed(k) ==
    /\ ActionFailed(k)
    /\ respOf[k].arg \in {ExcText("get"), ExcText("title")}

\* The invocation failed before it had a session: the browser was not found
\* or did not start.
StartFailed(k) == respOf[k].status = 500 /\ sessionOf[k] = 0

\* C1: at any time at most one browser process has been started and not yet
\* terminated, whatever the interleaving of concurrent invocations.
C1_AtMostOneLiveSession == Cardinality(alive) <= 1

\* C2: when the browser was started and the navigation or the title read then
\* failed, the browser process is terminated by the time the error response
\* has been produced.
C2_NoLeakOnFailure ==
    \A k \in Received : NavigationOrTitleFailed(k) => sessionOf[k] \notin alive

\* C3: two invocations served one after the other (by the same worker), both
\* successful, share one session: one browser process was spawned in all, and
\* two navigations were made.
C3_SessionReuse ==
    (/\ nInv = 2
     /\ workerOf[1] = workerOf[2]
     /\ respOf[1].status = 200
     /\ respOf[2].status = 200)
    => /\ sessionOf[1] = sessionOf[2]
       /\ created = 1
       /\ navigations = 2

\* C4: after an action on a session has thrown, any other invocation that gets
\* a session gets one created for it alone, never the session that failed.
C4_FreshSessionAfterFailure ==
    \A a \in Received : ActionFailed(a) =>
        \A b \in Received \ {a} : sessionOf[b] # 0 =>
            /\ sessionOf[b] # sessionOf[a]
            /\ \A c \in Received \ {b} : sessionOf[c] # sessionOf[b]

\* C4 witness: an action failed, and the same worker's next invocation has
\* obtained its session.
C4_Witness ==
    \E a \in Received, b \in Received :
        /\ a < b
        /\ workerOf[a] = workerOf[b]
        /\ ActionFailed(a)
        /\ sessionOf[b] # 0

\* C5: the resolved CHROME_BINARY is the first existing candidate (the
\* configured path, then /usr/bin/google-chrome), and when neither exists the
\* outcome is a not-found result, not a path.
C5_FirstExistingOrNotFound ==
    loaded =>
        LET configured == ConfiguredChrome(environ)
        IN IF configured \in fs THEN CHROME_BINARY = configured
           ELSE IF fallback_path \in fs THEN CHROME_BINARY = fallback_path
           ELSE CHROME_BINARY \notin ChromePaths

\* C6: with a driver whose major version differs from the browser's, no
\* browser process is ever started and every invocation that reaches the
\* launch ends in a failure.
C6_NoLaunchOnMajorMismatch ==
    browserMajor # driverMajor =>
        /\ created = 0
        /\ \A k \in Received : respOf[k].status # 200

\* C7: the error of an invocation whose browser could not be found or started
\* differs in kind from the error of one whose browser started and whose
\* navigation or title read failed.
C7_FailuresClassified ==
    \A a \in Received, b \in Received :
        (StartFailed(a) /\ NavigationOrTitleFailed(b))
            => ErrorKind(respOf[a]) # ErrorKind(respOf[b])

\* C8: no two invocations hold the same session handle at the same time, so no
\* two of them issue commands to one session concurrently.
C8_SerializedSessionUse ==
    \A w1 \in Workers, w2 \in Workers :
        (w1 # w2 /\ driver[w1] # 0 /\ driver[w2] # 0) => driver[w1] # driver[w2]

\* C8 witness: two invocations are issuing commands to their sessions at once.
C8_Witness ==
    \E w1 \in Workers, w2 \in Workers :
        /\ w1 # w2
        /\ pc[w1] \in {"get", "title", "quit"}
        /\ pc[w2] \in {"get", "title", "quit"}

\* C9: an invocation of a tool other than selenium_open_page has the 404
\* response, and a selenium_open_page invocation whose url is missing or empty
\* has the 400 response; neither has spawned a browser process (every session
\* created belongs to an invocation that passed the checks), and the resolved
\* browser and driver paths are those of start-up.
C9_ValidationPrecedesLaunch ==
    /\ \A k \in Received :
          /\ reqOf[k].tool # "selenium_open_page" =>
                respOf[k].status = 404 /\ sessionOf[k] = 0
          /\ (reqOf[k].tool = "selenium_open_page" /\ reqOf[k].url \in {None, ""}) =>
                respOf[k].status = 400 /\ sessionOf[k] = 0
    /\ created = Cardinality({k \in Received : sessionOf[k] # 0})
    /\ CHROME_BINARY = ResolveChromeBinary(ConfiguredChrome(environ), fs)
    /\ CHROMEDRIVER_PATH = ConfiguredDriver(environ)

\* C9 witness: one invocation was rejected with 404 and another, whose url is
\* the empty string, with 400.
C9_Witness ==
    \E a \in Received, b \in Received :
        /\ respOf[a].status = 404
        /\ respOf[b].status = 400
        /\ reqOf[b].url = ""

\* C10: an invocation that has returned a success response has quit its
\* session, and once every invocation received has returned success no browser
\* process is alive.
C10_SuccessMeansQuit ==
    /\ \A k \in Received :
          respOf[k].status = 200 => (sessionOf[k] # 0 /\ sessionOf[k] \notin alive)
    /\ (\A k \in Received : respOf[k].status = 200) => alive = {}

\* C10 witness: two invocations have both returned success.
C10_Witness ==
    /\ nInv >= 2
    /\ \A k \in Received : respOf[k].status = 200

====
